---- MODULE Spec2Model ----
(***************************************************************************)
(* State-machine model of csvManipulation.js: processCSV reads a CSV text, *)
(* builds the grid of trimmed cell texts and evaluates every cell with the *)
(* recursive evaluateCell.  Strings are sequences of one-character         *)
(* strings, so that trim, replace, split, the reference regex, parseInt    *)
(* and isNaN are modelled by what they do to the characters.               *)
(***************************************************************************)
EXTENDS Integers, Sequences, FiniteSets

VARIABLES csvData, pc, outcome, rows, numRows, numCols, populatedCells,
          visitedCells, result, values, evaluatedValues, row, col,
          stack, retval, printed, evalCalls, diag, why, alone, aloneWhy, probe

(* csvData, rows, numRows, numCols, populatedCells, visitedCells, result,   *)
(* values, row, col: the parameter and the locals of processCSV            *)
(* (csvManipulation.js 147-176); rows and columns count from 0 as there.   *)
(* evaluatedValues: the values of the current row.  pc: the position in    *)
(* processCSV.  outcome: "running", "threw" (line 163) or "printed" (178). *)
(* stack: the active calls of evaluateCell (55-112), innermost last, each  *)
(* with its cell text, tokens, index of the current token, sum and         *)
(* referencedCell, and the grid position "at" of the cell it evaluates.    *)
(* retval: the value a call has just returned, None otherwise.             *)
(* Bookkeeping the code does not hold: printed counts console.log calls,   *)
(* evalCalls the calls of evaluateCell made by processCSV, diag is the     *)
(* last branch evaluateCell took with its token, why the branch that       *)
(* decided each value stored by the pass.  alone, aloneWhy and probe       *)
(* belong to the calls of evaluateCell on single cells with a new Set().   *)

vars == <<csvData, pc, outcome, rows, numRows, numCols, populatedCells,
          visitedCells, result, values, evaluatedValues, row, col,
          stack, retval, printed, evalCalls, diag, why, alone, aloneWhy, probe>>

-----------------------------------------------------------------------------
(* Characters and JavaScript string primitives                             *)

CR == "\r"
LF == "\n"

Digits == <<"0", "1", "2", "3", "4", "5", "6", "7", "8", "9">>

UpperLetters == <<"A", "B", "C", "D", "E", "F", "G", "H", "I", "J", "K", "L", "M",
                  "N", "O", "P", "Q", "R", "S", "T", "U", "V", "W", "X", "Y", "Z">>

Range(s) == {s[i] : i \in DOMAIN s}

IndexOf(s, ch) == CHOOSE i \in DOMAIN s : s[i] = ch

IsDigit(ch) == ch \in Range(Digits)

IsUpper(ch) == ch \in Range(UpperLetters)

\* \s of the regular expressions and the white space String.prototype.trim strips
IsSpace(ch) == ch \in {" ", "\t", CR, LF}

DigitVal(ch) == IndexOf(Digits, ch) - 1

\* String.prototype.charCodeAt for the characters [A-Z] (the only first
\* characters a token that passed cellRefRegex can have)
charCodeAt(ch) == 64 + IndexOf(UpperLetters, ch)

RECURSIVE TrimStart(_)
TrimStart(s) == IF s # <<>> /\ IsSpace(Head(s)) THEN TrimStart(Tail(s)) ELSE s

RECURSIVE TrimEnd(_)
TrimEnd(s) ==
    IF s # <<>> /\ IsSpace(s[Len(s)]) THEN TrimEnd(SubSeq(s, 1, Len(s) - 1)) ELSE s

\* String.prototype.trim
trim(s) == TrimEnd(TrimStart(s))

\* s.replace(/\s+/g, ' '): every maximal run of white space becomes one space
RECURSIVE CollapseSpaces(_)
CollapseSpaces(s) ==
    IF s = <<>> THEN <<>>
    ELSE IF IsSpace(Head(s))
         THEN <<" ">> \o CollapseSpaces(TrimStart(s))
         ELSE <<Head(s)>> \o CollapseSpaces(Tail(s))

\* values[col].trim().replace(/\s+/g, ' ')
normalize(s) == CollapseSpaces(trim(s))

RECURSIVE SplitFrom(_, _, _, _)
SplitFrom(s, sep, i, cur) ==
    IF i > Len(s) THEN <<cur>>
    ELSE IF i + Len(sep) - 1 <= Len(s) /\ SubSeq(s, i, i + Len(sep) - 1) = sep
         THEN <<cur>> \o SplitFrom(s, sep, i + Len(sep), <<>>)
         ELSE SplitFrom(s, sep, i + 1, Append(cur, s[i]))

\* String.prototype.split with a non-empty separator string
split(s, sep) == SplitFrom(s, sep, 1, <<>>)

-----------------------------------------------------------------------------
(* JavaScript values: numbers (with NaN), the string "#ERR", undefined     *)

Num(n) == [k |-> "num", n |-> n]
NaN == [k |-> "nan", n |-> 0]
ERR == [k |-> "err", n |-> 0]
None == [k |-> "none", n |-> 0]

\* the value undefined where a cell text is expected
Undefined == <<"undefined">>

\* a + b on numbers; anything that is not a number on both sides is outside
\* the arithmetic the evaluator does and is kept apart as NaN
NumAdd(a, b) == IF a.k = "num" /\ b.k = "num" THEN Num(a.n + b.n) ELSE NaN

RECURSIVE DigitsValue(_, _, _)
DigitsValue(s, radix, acc) ==
    IF s = <<>> THEN acc
    ELSE DigitsValue(Tail(s), radix, acc * radix + Head(s))

HexLetters == <<"a", "b", "c", "d", "e", "f">>
HexUpper == <<"A", "B", "C", "D", "E", "F">>

IsHexDigit(ch) == IsDigit(ch) \/ ch \in Range(HexLetters) \/ ch \in Range(HexUpper)

HexVal(ch) ==
    IF IsDigit(ch) THEN DigitVal(ch)
    ELSE IF ch \in Range(HexLetters) THEN 9 + IndexOf(HexLetters, ch)
    ELSE 9 + IndexOf(HexUpper, ch)

\* the longest prefix of s whose characters are digits of the radix
RECURSIVE DigitPrefix(_, _)
DigitPrefix(s, radix) ==
    IF s # <<>> /\ (IF radix = 16 THEN IsHexDigit(Head(s)) ELSE IsDigit(Head(s)))
    THEN <<HexVal(Head(s))>> \o DigitPrefix(Tail(s), radix)
    ELSE <<>>

\* parseInt(s) without a radix argument: leading white space, a sign, an
\* optional 0x/0X prefix, then the longest run of digits; NaN when there is none
parseInt(s) ==
    LET t == TrimStart(s)
        neg == t # <<>> /\ Head(t) = "-"
        u == IF t # <<>> /\ Head(t) \in {"-", "+"} THEN Tail(t) ELSE t
        hex == Len(u) >= 2 /\ u[1] = "0" /\ u[2] \in {"x", "X"}
        radix == IF hex THEN 16 ELSE 10
        body == IF hex THEN SubSeq(u, 3, Len(u)) ELSE u
        ds == DigitPrefix(body, radix)
        v == DigitsValue(ds, radix, 0)
    IN  IF ds = <<>> THEN NaN ELSE Num(IF neg THEN 0 - v ELSE v)

AllDigits(s) == \A i \in DOMAIN s : IsDigit(s[i])

\* StrUnsignedDecimalLiteral of the ToNumber grammar
IsDecimalLiteral(s) ==
    \/ s = <<"I", "n", "f", "i", "n", "i", "t", "y">>
    \/ \E e \in 1..(Len(s) + 1) :
          LET mant == SubSeq(s, 1, e - 1)
              expo == SubSeq(s, e + 1, Len(s))
              expd == IF expo # <<>> /\ Head(expo) \in {"+", "-"} THEN Tail(expo) ELSE expo
          IN  /\ e <= Len(s) => (s[e] \in {"e", "E"} /\ expd # <<>> /\ AllDigits(expd))
              /\ \E d \in 1..(Len(mant) + 1) :
                    LET ip == SubSeq(mant, 1, d - 1)
                        fp == SubSeq(mant, d + 1, Len(mant))
                    IN  /\ d <= Len(mant) => mant[d] = "."
                        /\ AllDigits(ip) /\ AllDigits(fp)
                        /\ ip \o fp # <<>>

\* 0x, 0o and 0b literals of the ToNumber grammar (no sign allowed)
IsRadixLiteral(s) ==
    /\ Len(s) >= 3
    /\ s[1] = "0"
    /\ LET body == SubSeq(s, 3, Len(s))
       IN  \/ s[2] \in {"x", "X"} /\ \A i \in DOMAIN body : IsHexDigit(body[i])
           \/ s[2] \in {"o", "O"} /\ \A i \in DOMAIN body : body[i] \in Range(SubSeq(Digits, 1, 8))
           \/ s[2] \in {"b", "B"} /\ \A i \in DOMAIN body : body[i] \in {"0", "1"}

\* isNaN(s) on a string: ToNumber(s) is NaN unless the trimmed string is
\* empty or a numeric literal
isNaN(s) ==
    LET t == trim(s)
        u == IF t # <<>> /\ Head(t) \in {"+", "-"} THEN Tail(t) ELSE t
    IN  ~ (t = <<>> \/ IsDecimalLiteral(u) \/ IsRadixLiteral(t))

-----------------------------------------------------------------------------
(* Reference Resolver                                                      *)

\* one alternative of cellRefRegex: [A-Z]+\d{1,2}
MatchesRef(p) ==
    \E n \in 1..2 :
        /\ Len(p) > n
        /\ \A i \in 1..(Len(p) - n) : IsUpper(p[i])
        /\ \A i \in (Len(p) - n + 1)..Len(p) : IsDigit(p[i])

\* cellRefRegex.test(token) for /^[A-Z]+\d{1,2}( [A-Z]+\d{1,2})*$/
cellRefRegex(token) ==
    LET parts == split(token, <<" ">>)
    IN  \A i \in DOMAIN parts : MatchesRef(parts[i])

\* [row, col], both 0-based; the row is NaN when the text after the first
\* character does not start with a digit
getCellIndices(cellRef) ==
    <<NumAdd(parseInt(Tail(cellRef)), Num(0 - 1)),
      Num(charCodeAt(cellRef[1]) - charCodeAt("A"))>>

\* a variant of the bounds test with <= for < on the row
InBoundsRowOffByOne(idx, nRows, nCols) ==
    /\ idx[1].k = "num" /\ idx[2].k = "num"
    /\ idx[1].n >= 0 /\ idx[1].n <= nRows
    /\ idx[2].n >= 0 /\ idx[2].n < nCols

\* the bounds test of evaluateCell; every comparison with NaN is false
InBounds(idx, nRows, nCols) ==
    /\ idx[1].k = "num" /\ idx[2].k = "num"
    /\ idx[1].n >= 0 /\ idx[1].n < nRows
    /\ idx[2].n >= 0 /\ idx[2].n < nCols

\* initialCells[row][col]; an index with no element reads undefined
CellAt(cells, idx) ==
    IF /\ idx[1].k = "num" /\ idx[1].n + 1 \in DOMAIN cells
       /\ idx[2].k = "num" /\ idx[2].n + 1 \in DOMAIN cells[idx[1].n + 1]
    THEN cells[idx[1].n + 1][idx[2].n + 1]
    ELSE Undefined

-----------------------------------------------------------------------------
(* Grid Builder                                                            *)

\* Array(numRows) of Array(numCols) of ''
initializeCells(nRows, nCols) == [r \in 1..nRows |-> [c \in 1..nCols |-> <<>>]]

\* a field the row does not have (values[col] undefined) keeps the default ''
\* and fields past numCols are dropped
populateCells(rws, nRows, nCols, initialCells) ==
    [r \in 1..nRows |->
        LET vals == split(rws[r], <<",">>)
        IN  [c \in 1..nCols |->
                IF c <= Len(vals) THEN normalize(vals[c]) ELSE initialCells[r][c]]]

-----------------------------------------------------------------------------
(* Inputs                                                                  *)

RECURSIVE Join(_, _)
Join(parts, sep) ==
    IF parts = <<>> THEN <<>>
    ELSE IF Len(parts) = 1 THEN parts[1]
    ELSE parts[1] \o sep \o Join(Tail(parts), sep)

\* the grid written as CSV text: fields joined by ',' and rows by CRLF
CsvOf(grid) == Join([r \in DOMAIN grid |-> Join(grid[r], <<",">>)], <<CR, LF>>)

\* raw field texts the cells are drawn from (in a grid of two rows and two
\* columns the cells are A1 B1 / A2 B2)
FieldPool ==
    { <<"1">>,                                      \* a literal
      <<"B", "1", " ", "A", "2">>,                  \* two references
      <<"A", "1">>,                                 \* one reference
      <<"B", "2", " ", "B", "2", " ", "-", "2">>,   \* a repeated reference and a literal
      <<" ", "2", " ", " ", "A", "2", " ">>,        \* white space to normalise
      <<"#", "a">>,                                 \* no number, no reference
      <<"1", ".", "5", " ", "0", "x", "1", "0", " ", "1", "e", "3", " ",
        "I", "n", "f", "i", "n", "i", "t", "y">>,   \* what isNaN takes for numbers
      <<>> }                                        \* an empty field

\* fields holding a reference that leaves the grid
OutsidePool ==
    { <<"A", "3", " ", "B", "1">>,                  \* row past the last row
      <<"C", "1">>,                                 \* column past the last column
      <<"A", "0">>,                                 \* row number 0
      <<"A", "B", "1">> }                           \* two column letters

\* the fields next to an outside reference, and those of a ragged row
SmallPool == { <<"1">>, <<"A", "1">>, <<"B", "1", " ", "A", "2">>,
               <<"B", "2", " ", "B", "2", " ", "-", "2">> }

RaggedPool == { <<"1">>, <<"A", "1">> }

\* the largest number of fields of a ragged second row
MaxRaggedFields == 3

Grid(a, b, c, d) == <<<<a, b>>, <<c, d>>>>

RectangularGrids ==
    { Grid(a, b, c, d) : a \in FieldPool, b \in FieldPool, c \in FieldPool, d \in FieldPool }

OutsideGrids ==
    UNION { { Grid(o, x, y, z), Grid(x, o, y, z), Grid(x, y, o, z), Grid(x, y, z, o) } :
            o \in OutsidePool, x \in SmallPool, y \in SmallPool, z \in SmallPool }

RaggedGrids ==
    UNION { { <<<<a, b>>, second>> : a \in FieldPool, b \in FieldPool,
                                     second \in [1..n -> RaggedPool] } :
            n \in (1..MaxRaggedFields) \ {2} }

Inputs == { CsvOf(g) : g \in RectangularGrids \cup OutsideGrids \cup RaggedGrids }

-----------------------------------------------------------------------------
(* Cell Evaluator: one frame of the stack per active call of evaluateCell  *)

Top == stack[Len(stack)]

Token == Top.tokens[Top.i]

\* an active call stands at a token
AtToken == stack # <<>> /\ retval = None /\ Top.i <= Len(Top.tokens)

Pop == SubSeq(stack, 1, Len(stack) - 1)

SetTop(f) == [stack EXCEPT ![Len(stack)] = f]

\* entry of evaluateCell(cell, ...): undefined returns "#ERR" at once, any
\* other text is split on ' ' with sum = 0 and referencedCell = null
Enter(stk, cell, at) ==
    IF cell = Undefined
    THEN [stack |-> stk, retval |-> ERR]
    ELSE [stack |-> Append(stk, [cell |-> cell, tokens |-> split(cell, <<" ">>), i |-> 1,
                                 sum |-> Num(0), referencedCell |-> Undefined, at |-> at]),
          retval |-> None]

\* a variant of the membership test that looks only at the active recursion path
VisitedHasOnPath(visited, referencedCell) ==
    referencedCell \in {stack[i].cell : i \in 2..Len(stack)}

\* visitedCells.has(referencedCell)
VisitedHas(visited, referencedCell) == referencedCell \in visited

\* a variant of the propagation test that never sees the error marker
IsErrNever(refValue) == FALSE

\* refValue === "#ERR"
IsErr(refValue) == refValue = ERR

\* a variant of the accumulation with = for +=
AddLiteralOverwrite(sum, token) == parseInt(token)

\* sum += parseInt(token)
AddLiteral(sum, token) == NumAdd(sum, parseInt(token))

\* a variant that never unmarks a summed reference
VisitedKeep(visited, referencedCell) == visited

\* visitedCells.delete(referencedCell) after a reference has been summed
VisitedDelete(visited, referencedCell) == visited \ {referencedCell}

\* a variant that takes a circular dependency for the value 0
CircularResultZero == Num(0)

\* what evaluateCell returns once a circular dependency is detected
CircularResult == ERR

Driver == <<csvData, pc, outcome, rows, numRows, numCols, populatedCells, result,
            values, evaluatedValues, row, col, printed, evalCalls, why, alone, aloneWhy,
            probe>>

Return(v, branch) ==
    /\ stack' = Pop
    /\ retval' = v
    /\ diag' = [branch |-> branch, token |-> Token, at |-> Top.at]

\* if (token.trim() === "") return "#ERR"
EmptyToken ==
    /\ AtToken
    /\ trim(Token) = <<>>
    /\ Return(ERR, "empty")
    /\ UNCHANGED <<Driver, visitedCells>>

\* a reference outside the grid: return "#ERR"
RefOutOfBounds ==
    /\ AtToken
    /\ trim(Token) # <<>>
    /\ cellRefRegex(Token)
    /\ ~ InBounds(getCellIndices(Token), numRows, numCols)
    /\ Return(ERR, "bounds")
    /\ UNCHANGED <<Driver, visitedCells>>

\* the referenced cell's text is in visitedCells: return "#ERR"
RefCircular ==
    /\ AtToken
    /\ trim(Token) # <<>>
    /\ cellRefRegex(Token)
    /\ InBounds(getCellIndices(Token), numRows, numCols)
    /\ VisitedHas(visitedCells, CellAt(populatedCells, getCellIndices(Token)))
    /\ Return(CircularResult, "circular")
    /\ UNCHANGED <<Driver, visitedCells>>

\* visitedCells.add(referencedCell) and the recursive call
RefDescend ==
    /\ AtToken
    /\ trim(Token) # <<>>
    /\ cellRefRegex(Token)
    /\ InBounds(getCellIndices(Token), numRows, numCols)
    /\ LET idx == getCellIndices(Token)
           referencedCell == CellAt(populatedCells, idx)
           e == Enter(SetTop([Top EXCEPT !.referencedCell = referencedCell]),
                      referencedCell, <<idx[1].n, idx[2].n>>)
       IN  /\ ~ VisitedHas(visitedCells, referencedCell)
           /\ visitedCells' = visitedCells \cup {referencedCell}
           /\ stack' = e.stack
           /\ retval' = e.retval
           /\ diag' = [branch |-> "descend", token |-> Token, at |-> Top.at]
    /\ UNCHANGED Driver

\* else if (!isNaN(token)) sum += parseInt(token)
NumberToken ==
    /\ AtToken
    /\ trim(Token) # <<>>
    /\ ~ cellRefRegex(Token)
    /\ ~ isNaN(Token)
    /\ stack' = SetTop([Top EXCEPT !.sum = AddLiteral(Top.sum, Token), !.i = Top.i + 1])
    /\ diag' = [branch |-> "number", token |-> Token, at |-> Top.at]
    /\ UNCHANGED <<Driver, visitedCells, retval>>

\* else: invalid cell value format, return "#ERR"
InvalidToken ==
    /\ AtToken
    /\ trim(Token) # <<>>
    /\ ~ cellRefRegex(Token)
    /\ isNaN(Token)
    /\ Return(ERR, "invalid")
    /\ UNCHANGED <<Driver, visitedCells>>

\* the loop is over: return sum
ReturnSum ==
    /\ stack # <<>> /\ retval = None
    /\ Top.i > Len(Top.tokens)
    /\ stack' = Pop
    /\ retval' = Top.sum
    /\ diag' = [branch |-> "sum", token |-> <<>>, at |-> Top.at]
    /\ UNCHANGED <<Driver, visitedCells>>

\* back in the caller with refValue === "#ERR": return "#ERR" (the entry of
\* referencedCell stays in visitedCells)
RefFailed ==
    /\ stack # <<>> /\ retval # None
    /\ IsErr(retval)
    /\ stack' = Pop
    /\ retval' = ERR
    /\ UNCHANGED <<Driver, visitedCells, diag>>

\* back in the caller with a value: sum += refValue,
\* visitedCells.delete(referencedCell), next token
RefSummed ==
    /\ stack # <<>> /\ retval # None
    /\ ~ IsErr(retval)
    /\ stack' = SetTop([Top EXCEPT !.sum = NumAdd(Top.sum, retval), !.i = Top.i + 1])
    /\ visitedCells' = VisitedDelete(visitedCells, Top.referencedCell)
    /\ retval' = None
    /\ diag' = [branch |-> "summed", token |-> Token, at |-> Top.at]
    /\ UNCHANGED Driver

-----------------------------------------------------------------------------
(* Grid Evaluation Driver: processCSV                                      *)

Eval == <<visitedCells, stack, retval, diag>>

Init ==
    /\ csvData \in Inputs
    /\ pc = "start"
    /\ outcome = "running"
    /\ rows = <<>>
    /\ numRows = 0
    /\ numCols = 0
    /\ populatedCells = <<>>
    /\ visitedCells = {}
    /\ result = <<>>
    /\ values = <<>>
    /\ evaluatedValues = <<>>
    /\ row = 0
    /\ col = 0
    /\ stack = <<>>
    /\ retval = None
    /\ printed = 0
    /\ evalCalls = 0
    /\ diag = [branch |-> "none", token |-> <<>>, at |-> <<0, 0>>]
    /\ why = <<>>
    /\ alone = <<>>
    /\ aloneWhy = <<>>
    /\ probe = 0

\* rows, numRows, numCols, the populated grid, one visitedCells for the
\* whole pass, an empty result
Start ==
    /\ pc = "start"
    /\ LET rws == split(trim(csvData), <<CR, LF>>)
           nRows == Len(rws)
           nCols == Len(split(rws[1], <<",">>))
       IN  /\ rows' = rws
           /\ numRows' = nRows
           /\ numCols' = nCols
           /\ populatedCells' = populateCells(rws, nRows, nCols, initializeCells(nRows, nCols))
    /\ visitedCells' = {}
    /\ result' = <<>>
    /\ row' = 0
    /\ pc' = "row"
    /\ UNCHANGED <<csvData, outcome, values, evaluatedValues, col, stack, retval,
                   printed, evalCalls, diag, why, alone, aloneWhy, probe>>

\* a row with numCols fields: start its evaluatedValues
RowBegin ==
    /\ pc = "row"
    /\ row < numRows
    /\ Len(split(rows[row + 1], <<",">>)) = numCols
    /\ values' = split(rows[row + 1], <<",">>)
    /\ evaluatedValues' = <<>>
    /\ col' = 0
    /\ pc' = "col"
    /\ UNCHANGED <<csvData, outcome, rows, numRows, numCols, populatedCells, result, row,
                   printed, evalCalls, why, alone, aloneWhy, probe, Eval>>

\* a row with another number of fields: throw
RowThrow ==
    /\ pc = "row"
    /\ row < numRows
    /\ Len(split(rows[row + 1], <<",">>)) # numCols
    /\ values' = split(rows[row + 1], <<",">>)
    /\ outcome' = "threw"
    /\ pc' = "ended"
    /\ UNCHANGED <<csvData, rows, numRows, numCols, populatedCells, result, evaluatedValues,
                   row, col, printed, evalCalls, why, alone, aloneWhy, probe, Eval>>

\* evaluateCell(values[col].trim().replace(/\s+/g, ' '), populatedCells, visitedCells, ...)
CellCall ==
    /\ pc = "col"
    /\ col < numCols
    /\ LET e == Enter(stack, normalize(values[col + 1]), <<row, col>>)
       IN  stack' = e.stack /\ retval' = e.retval
    /\ evalCalls' = evalCalls + 1
    /\ pc' = "eval"
    /\ UNCHANGED <<csvData, outcome, rows, numRows, numCols, populatedCells, result, values,
                   evaluatedValues, row, col, printed, why, alone, aloneWhy, probe, visitedCells,
                   diag>>

\* evaluatedValues.push(evaluatedValue)
CellStore ==
    /\ pc = "eval"
    /\ stack = <<>> /\ retval # None
    /\ evaluatedValues' = Append(evaluatedValues, retval)
    /\ retval' = None
    /\ col' = col + 1
    /\ why' = Append(why, diag)
    /\ pc' = "col"
    /\ UNCHANGED <<csvData, outcome, rows, numRows, numCols, populatedCells, result, values,
                   row, printed, evalCalls, alone, aloneWhy, probe, visitedCells, stack,
                   diag>>

\* result.push(the row's values)
RowEnd ==
    /\ pc = "col"
    /\ col = numCols
    /\ result' = Append(result, evaluatedValues)
    /\ row' = row + 1
    /\ pc' = "row"
    /\ UNCHANGED <<csvData, outcome, rows, numRows, numCols, populatedCells, values,
                   evaluatedValues, col, printed, evalCalls, why, alone, aloneWhy, probe, Eval>>

\* console.log(result.join('\n'))
LogResult ==
    /\ pc = "row"
    /\ row = numRows
    /\ printed' = printed + 1
    /\ outcome' = "printed"
    /\ pc' = "ended"
    /\ UNCHANGED <<csvData, rows, numRows, numCols, populatedCells, result, values,
                   evaluatedValues, row, col, evalCalls, why, alone, aloneWhy, probe, Eval>>

-----------------------------------------------------------------------------
(* evaluateCell called on one cell of the grid with a new Set(), as the    *)
(* unit tests call it; alone keeps the returned values in row-major order  *)

ProbeAt == <<probe \div numCols, probe % numCols>>

AloneCall ==
    /\ pc \in {"ended", "alone"}
    /\ probe < numRows * numCols
    /\ visitedCells' = {}
    /\ LET e == Enter(stack, populatedCells[ProbeAt[1] + 1][ProbeAt[2] + 1], ProbeAt)
       IN  stack' = e.stack /\ retval' = e.retval
    /\ pc' = "aloneEval"
    /\ UNCHANGED <<csvData, outcome, rows, numRows, numCols, populatedCells, result, values,
                   evaluatedValues, row, col, printed, evalCalls, why, alone, aloneWhy, probe,
                   diag>>

AloneStore ==
    /\ pc = "aloneEval"
    /\ stack = <<>> /\ retval # None
    /\ alone' = Append(alone, retval)
    /\ aloneWhy' = Append(aloneWhy, diag)
    /\ retval' = None
    /\ probe' = probe + 1
    /\ pc' = "alone"
    /\ UNCHANGED <<csvData, outcome, rows, numRows, numCols, populatedCells, result, values,
                   evaluatedValues, row, col, printed, evalCalls, why, visitedCells, stack,
                   diag>>

Next ==
    \/ Start \/ RowBegin \/ RowThrow \/ CellCall \/ CellStore \/ RowEnd \/ LogResult
    \/ EmptyToken \/ RefOutOfBounds \/ RefCircular \/ RefDescend \/ NumberToken
    \/ InvalidToken \/ ReturnSum \/ RefFailed \/ RefSummed
    \/ AloneCall \/ AloneStore

Spec == Init /\ [][Next]_vars

\* processCSV has ended and every cell has been evaluated alone
Finished == pc \in {"ended", "alone"} /\ probe = numRows * numCols

-----------------------------------------------------------------------------
(* The grid seen as a dependency graph, and the values stored so far       *)

Positions == {<<r, c>> : r \in 0..(numRows - 1), c \in 0..(numCols - 1)}

TextAt(p) == populatedCells[p[1] + 1][p[2] + 1]

TokensAt(p) == split(TextAt(p), <<" ">>)

\* the token is a reference and names position q of the grid
RefersTo(token, q) ==
    /\ token # <<>>
    /\ cellRefRegex(token)
    /\ getCellIndices(token) = <<Num(q[1]), Num(q[2])>>

\* the position a reference token names, <<-1, -1>> when its row is NaN
NamedPosition(token) ==
    LET idx == getCellIndices(token)
    IN  IF idx[1].k = "num" /\ idx[2].k = "num" THEN <<idx[1].n, idx[2].n>> ELSE <<0 - 1, 0 - 1>>

\* the token is a reference that names no position of the grid
RefersOutside(token) ==
    /\ token # <<>>
    /\ cellRefRegex(token)
    /\ NamedPosition(token) \notin Positions

\* the positions the cell at p references
RefTargets(p) ==
    LET toks == TokensAt(p)
    IN  {NamedPosition(toks[i]) :
            i \in {j \in DOMAIN toks : toks[j] # <<>> /\ cellRefRegex(toks[j])}} \cap Positions

\* the reference graph of the grid: position |-> referenced positions
Graph == [p \in Positions |-> RefTargets(p)]

RECURSIVE Closure(_, _, _)
Closure(g, S, n) ==
    IF n = 0 THEN S ELSE Closure(g, S \cup UNION {g[q] : q \in S}, n - 1)

\* position |-> the cells it depends on, directly or transitively
Dependencies ==
    LET g == Graph IN [p \in Positions |-> Closure(g, g[p], Cardinality(Positions))]

\* p references itself, directly or through a cycle (d is Dependencies)
Cyclic(d, p) == p \in d[p]

\* an optional sign and one or more decimal digits
IsIntLiteral(token) ==
    LET u == IF token # <<>> /\ Head(token) \in {"+", "-"} THEN Tail(token) ELSE token
    IN  u # <<>> /\ AllDigits(u)

IntLiteralValue(token) ==
    LET u == IF Head(token) \in {"+", "-"} THEN Tail(token) ELSE token
        v == DigitsValue([i \in DOMAIN u |-> DigitVal(u[i])], 10, 0)
    IN  IF Head(token) = "-" THEN 0 - v ELSE v

\* every token of the cell is an integer literal or a reference into the grid
OwnTokensValid(p) ==
    LET toks == TokensAt(p)
    IN  \A i \in DOMAIN toks :
            \/ IsIntLiteral(toks[i])
            \/ toks[i] # <<>> /\ cellRefRegex(toks[i]) /\ NamedPosition(toks[i]) \in Positions

\* valid tokens in the cell and in all it depends on, and no cycle among
\* them (d is Dependencies)
Sound(d, p) == \A q \in {p} \cup d[p] : OwnTokensValid(q) /\ ~ Cyclic(d, q)

\* the arithmetic sum of a sound cell: literals plus the sums of the
\* referenced cells, once per reference token
RECURSIVE ArithmeticSum(_)
RECURSIVE SumOfTokens(_)
SumOfTokens(tokens) ==
    IF tokens = <<>> THEN 0
    ELSE (IF IsIntLiteral(Head(tokens))
          THEN IntLiteralValue(Head(tokens))
          ELSE ArithmeticSum(NamedPosition(Head(tokens))))
         + SumOfTokens(Tail(tokens))
ArithmeticSum(p) == SumOfTokens(TokensAt(p))

\* the whole-grid pass has pushed the row of p to result
PassStored(p) == p[1] < Len(result) /\ p[1] < numRows /\ p[2] < numCols

PassValue(p) == result[p[1] + 1][p[2] + 1]

PassWhy(p) == why[p[1] * numCols + p[2] + 1]

\* evaluateCell has been called on p alone, with an empty visited set
AloneStored(p) == p[1] * numCols + p[2] + 1 <= Len(alone)

AloneValue(p) == alone[p[1] * numCols + p[2] + 1]

AloneWhy(p) == aloneWhy[p[1] * numCols + p[2] + 1]

\* the whole-grid pass is running (not the calls on single cells)
InPass == pc \in {"row", "col", "eval"}

\* the texts of the referenced cells on the active recursion path
ActivePath == {stack[i].cell : i \in 2..Len(stack)}

DistinctTexts == {TextAt(p) : p \in Positions}

\* result and alone only grow, by RowEnd and AloneStore: what holds of the
\* stored values once the run has ended held of them when they were stored
AllStored == Finished

-----------------------------------------------------------------------------
(* Claims                                                                  *)

\* C1: a cell that references itself, directly or through a reference cycle
\* of length >= 2, evaluates to #ERR, both when evaluateCell is called on it
\* with an empty visited set and in the whole-grid pass of processCSV.
C1_CyclicCellIsErr ==
    AllStored =>
        LET d == Dependencies
        IN  \A p \in Positions :
                /\ (PassStored(p) /\ Cyclic(d, p)) => PassValue(p) = ERR
                /\ (AloneStored(p) /\ Cyclic(d, p)) => AloneValue(p) = ERR

\* C1 witness: a cell on a cycle of length >= 2 that does not reference
\* itself directly, and a cell that does, all evaluated both ways to #ERR.
C1_Witness ==
    /\ pc = "alone"
    /\ LET d == Dependencies
       IN  \E p \in Positions : \E q \in Positions :
            /\ p # q
            /\ p \notin RefTargets(p) /\ Cyclic(d, p)
            /\ q \in RefTargets(q)
            /\ PassStored(p) /\ AloneStored(p) /\ PassStored(q) /\ AloneStored(q)
            /\ PassValue(p) = ERR /\ AloneValue(p) = ERR
            /\ PassValue(q) = ERR /\ AloneValue(q) = ERR

\* C2: a cell whose tokens are integer literals or references into the grid,
\* and whose dependencies are likewise valid and free of cycles, evaluates to
\* the arithmetic sum of its literals and its referenced cells, once per
\* reference token, alone and in the whole-grid pass.
C2_SoundCellIsSum ==
    AllStored =>
        LET d == Dependencies
        IN  \A p \in Positions :
                /\ (PassStored(p) /\ Sound(d, p)) => PassValue(p) = Num(ArithmeticSum(p))
                /\ (AloneStored(p) /\ Sound(d, p)) => AloneValue(p) = Num(ArithmeticSum(p))

\* C2 witness: a sound cell at the top of a diamond whose two middle cells
\* have the same text and reference the bottom cell twice each.
C2_Witness ==
    /\ pc = "alone"
    /\ \E p \in Positions : \E q1 \in RefTargets(p) : \E q2 \in RefTargets(p) :
        \E b \in RefTargets(q1) \cap RefTargets(q2) :
            /\ q1 # q2 /\ TextAt(q1) = TextAt(q2)
            /\ Cardinality({i \in DOMAIN TokensAt(q1) : RefersTo(TokensAt(q1)[i], b)}) = 2
            /\ Sound(Dependencies, p)
            /\ PassStored(p) /\ AloneStored(p)
            /\ PassValue(p) = Num(ArithmeticSum(p))
            /\ AloneValue(p) = Num(ArithmeticSum(p))

\* C3: if a cell evaluates to #ERR, every cell that depends on it, directly
\* or transitively, evaluates to #ERR too.
C3_ErrPropagates ==
    AllStored =>
        LET d == Dependencies
        IN  \A p \in Positions : \A q \in d[p] :
                /\ (PassStored(p) /\ PassStored(q) /\ PassValue(q) = ERR)
                      => PassValue(p) = ERR
                /\ (AloneStored(p) /\ AloneStored(q) /\ AloneValue(q) = ERR)
                      => AloneValue(p) = ERR

\* C3 witness: a cell off every cycle with a literal and a reference to a
\* cell that is #ERR is itself #ERR, both ways.
C3_Witness ==
    /\ pc = "alone"
    /\ LET d == Dependencies
       IN  \E p \in Positions : \E q \in RefTargets(p) :
            /\ ~ Cyclic(d, p) /\ ~ Cyclic(d, q)
            /\ \E i \in DOMAIN TokensAt(p) : IsIntLiteral(TokensAt(p)[i])
            /\ PassStored(p) /\ PassStored(q) /\ AloneStored(p) /\ AloneStored(q)
            /\ PassValue(q) = ERR /\ AloneValue(q) = ERR
            /\ PassValue(p) = ERR /\ AloneValue(p) = ERR

\* C4: the value the whole-grid pass stores for a cell equals the value
\* evaluateCell returns for that cell alone with an empty visited set.
C4_PassEqualsAlone ==
    \A p \in Positions : (PassStored(p) /\ AloneStored(p)) => PassValue(p) = AloneValue(p)

\* C4 witness: the pass left entries of a failed cell in the visited set
\* before it evaluated a later cell with a reference to a number, and that
\* cell alone gives the same number.
C4_Witness ==
    /\ pc = "alone"
    /\ outcome = "printed"
    /\ \E p \in Positions : \E q \in Positions :
        /\ p[1] < q[1] \/ (p[1] = q[1] /\ p[2] < q[2])
        /\ PassStored(p) /\ PassValue(p) = ERR /\ PassWhy(p).at # p
        /\ PassStored(q) /\ AloneStored(q)
        /\ PassValue(q).k = "num" /\ AloneValue(q) = PassValue(q)
        /\ RefTargets(q) # {}

\* C5: when a row has another field count than the first row, processCSV
\* throws the inconsistent-columns error having evaluated no cell and having
\* printed nothing.
C5_ThrowsBeforeAnyEvaluation ==
    outcome = "threw" => (evalCalls = 0 /\ printed = 0)

\* what C5 leaves standing: nothing is printed before the throw
C5_NothingPrintedOnThrow == outcome = "threw" => printed = 0

\* C6: a token is added to the sum only when it is an integer literal, and
\* every value evaluateCell returns is an integer or #ERR.
C6_OnlyIntegersAccepted ==
    /\ diag.branch = "number" => IsIntLiteral(diag.token)
    /\ retval.k \in {"none", "num", "err"}

\* C7: a reference token that names no position of the grid makes
\* evaluateCell return #ERR at once: the call ends at that token, nothing is
\* pushed for a referenced cell and the visited set is as before.
C7_OutsideReferenceStep ==
    (AtToken /\ RefersOutside(Token))
        => (retval' = ERR /\ stack' = Pop /\ visitedCells' = visitedCells)

C7_OutsideReferenceIsErr == [][C7_OutsideReferenceStep]_vars

\* C7 witness: a call has just returned #ERR at a reference past the last
\* row although a token that names a cell of the grid follows it.
C7_Witness ==
    /\ diag.branch = "bounds" /\ retval = ERR
    /\ diag.token = <<"A", "3">>
    /\ LET toks == TokensAt(diag.at)
       IN  toks[1] = diag.token /\ Len(toks) = 2 /\ ~ RefersOutside(toks[2])

\* the other three kinds of outside reference have been rejected the same way
C7_WitnessColumn == diag.branch = "bounds" /\ retval = ERR /\ diag.token = <<"C", "1">>
C7_WitnessRowZero == diag.branch = "bounds" /\ retval = ERR /\ diag.token = <<"A", "0">>
C7_WitnessLetters == diag.branch = "bounds" /\ retval = ERR /\ diag.token = <<"A", "B", "1">>

\* C8 (safety part): the recursion depth never exceeds the number of
\* distinct cell texts plus one, and every value the pass stores is an
\* integer or #ERR.
C8_BoundedDepthAndIntegerOrErr ==
    /\ Len(stack) <= Cardinality(DistinctTexts) + 1
    /\ \A i \in DOMAIN evaluatedValues : evaluatedValues[i].k \in {"num", "err"}

\* the depth bound of C8 alone
C8_DepthBounded == Len(stack) <= Cardinality(DistinctTexts) + 1

\* C9: during the whole-grid pass the visited set holds exactly the texts of
\* the referenced cells on the active recursion path, and it is empty each
\* time processCSV starts evaluating a top-level cell.
C9_VisitedIsActivePath ==
    /\ (pc = "col" /\ col < numCols) => visitedCells = {}
    /\ (pc = "eval" /\ retval = None) => visitedCells = ActivePath

\* C10: membership in the visited set goes by the text of the referenced
\* cell: a reference into the grid whose cell text is in the visited set
\* returns #ERR through the circular-dependency branch, whether or not that
\* cell is on the active recursion path.
C10_TextInVisitedStep ==
    (InPass /\ AtToken /\ Token # <<>> /\ cellRefRegex(Token)
        /\ NamedPosition(Token) \in Positions
        /\ TextAt(NamedPosition(Token)) \in visitedCells)
        => (retval' = ERR /\ diag'.branch = "circular" /\ stack' = Pop)

====
